---------------------------- MODULE Spec2Model ----------------------------
(***************************************************************************)
(* A chess application: a fixed-depth minimax / alpha-beta search that     *)
(* runs in a Web Worker (worker.ts), the dispatcher that owns the worker   *)
(* (ai.ts: findBestMoveAsync, terminateAI) and the game store that calls   *)
(* it.  The rules engine (chess.js) is an external library: the model      *)
(* takes its answers (legal moves, game over, board) from a finite game    *)
(* tree whose nodes carry real boards.                                     *)
(***************************************************************************)
EXTENDS Integers, Sequences, FiniteSets, TLC

(***************************************************************************)
(* Bounds of the model.                                                    *)
(***************************************************************************)
\* the largest search depth a request asks for
MaxDepth == 3
\* the number of legal moves of a position that has any
Branch == 2
\* the number of calls of findBestMoveAsync
MaxRequests == 3
\* the number of calls of findBestMoveAsync the store makes
MaxAsks == 2

\* JavaScript's Infinity: above every score evaluate can return
Infinity == 1000000

\* a falsy field of a Move (no capture, no promotion) and the null move
None == "none"

Max(a, b) == IF a >= b THEN a ELSE b
Min(a, b) == IF a <= b THEN a ELSE b

(***************************************************************************)
(* Evaluation tables (worker.ts).                                          *)
(***************************************************************************)
PIECE_VALUES ==
  [p |-> 100, n |-> 320, b |-> 330, r |-> 500, q |-> 900, k |-> 20000]

PST_PAWN ==
  <<   0,   0,   0,   0,   0,   0,   0,   0,
      50,  50,  50,  50,  50,  50,  50,  50,
      10,  10,  20,  30,  30,  20,  10,  10,
       5,   5,  10,  25,  25,  10,   5,   5,
       0,   0,   0,  20,  20,   0,   0,   0,
       5,  -5, -10,   0,   0, -10,  -5,   5,
       5,  10,  10, -20, -20,  10,  10,   5,
       0,   0,   0,   0,   0,   0,   0,   0 >>

PST_KNIGHT ==
  << -50, -40, -30, -30, -30, -30, -40, -50,
     -40, -20,   0,   0,   0,   0, -20, -40,
     -30,   0,  10,  15,  15,  10,   0, -30,
     -30,   5,  15,  20,  20,  15,   5, -30,
     -30,   0,  15,  20,  20,  15,   0, -30,
     -30,   5,  10,  15,  15,  10,   5, -30,
     -40, -20,   0,   5,   5,   0, -20, -40,
     -50, -40, -30, -30, -30, -30, -40, -50 >>

PST_BISHOP ==
  << -20, -10, -10, -10, -10, -10, -10, -20,
     -10,   0,   0,   0,   0,   0,   0, -10,
     -10,   0,  10,  10,  10,  10,   0, -10,
     -10,   5,   5,  10,  10,   5,   5, -10,
     -10,   0,  10,  10,  10,  10,   0, -10,
     -10,  10,  10,  10,  10,  10,  10, -10,
     -10,   5,   0,   0,   0,   0,   5, -10,
     -20, -10, -10, -10, -10, -10, -10, -20 >>

PST_ROOK ==
  <<   0,   0,   0,   0,   0,   0,   0,   0,
       5,  10,  10,  10,  10,  10,  10,   5,
      -5,   0,   0,   0,   0,   0,   0,  -5,
      -5,   0,   0,   0,   0,   0,   0,  -5,
      -5,   0,   0,   0,   0,   0,   0,  -5,
      -5,   0,   0,   0,   0,   0,   0,  -5,
      -5,   0,   0,   0,   0,   0,   0,  -5,
       0,   0,   0,   5,   5,   0,   0,   0 >>

PST_QUEEN ==
  << -20, -10, -10,  -5,  -5, -10, -10, -20,
     -10,   0,   0,   0,   0,   0,   0, -10,
     -10,   0,   5,   5,   5,   5,   0, -10,
      -5,   0,   5,   5,   5,   5,   0,  -5,
       0,   0,   5,   5,   5,   5,   0,  -5,
     -10,   5,   5,   5,   5,   5,   0, -10,
     -10,   0,   5,   0,   0,   0,   0, -10,
     -20, -10, -10,  -5,  -5, -10, -10, -20 >>

PST_KING_MID ==
  << -30, -40, -40, -50, -50, -40, -40, -30,
     -30, -40, -40, -50, -50, -40, -40, -30,
     -30, -40, -40, -50, -50, -40, -40, -30,
     -30, -40, -40, -50, -50, -40, -40, -30,
     -20, -30, -30, -40, -40, -30, -30, -20,
     -10, -20, -20, -20, -20, -20, -20, -10,
      20,  20,   0,   0,   0,   0,  20,  20,
      20,  30,  10,   0,   0,  10,  30,  20 >>

PST_MAP ==
  [p |-> PST_PAWN, n |-> PST_KNIGHT, b |-> PST_BISHOP,
   r |-> PST_ROOK, q |-> PST_QUEEN, k |-> PST_KING_MID]

(***************************************************************************)
(* Boards.  game.board() is an 8 x 8 array, row 0 = rank 8, column 0 =     *)
(* file a; a square holds a piece [type, color] or null.                   *)
(***************************************************************************)
NoPiece == [type |-> None, color |-> None]

Pc(color, type, row, col) ==
  [color |-> color, type |-> type, row |-> row, col |-> col]

\* the 8 x 8 array of a set of placed pieces
BoardOf(pieces) ==
  [row \in 0..7 |-> [col \in 0..7 |->
     IF \E x \in pieces : x.row = row /\ x.col = col
       THEN LET x == CHOOSE x \in pieces : x.row = row /\ x.col = col
            IN  [type |-> x.type, color |-> x.color]
       ELSE NoPiece]]

\* a loop body that reads the table at idx for both colours
SquareScoreNoMirror(board, sq) ==
  LET row   == sq \div 8
      col   == sq % 8
      piece == board[row][col]
  IN  IF piece = NoPiece THEN 0
      ELSE LET v == PIECE_VALUES[piece.type] + PST_MAP[piece.type][row * 8 + col + 1]
           IN  IF piece.color = "w" THEN v ELSE 0 - v

\* the contribution of square `sq` (0..63, row-major), the loop body of evaluate
SquareScore(board, sq) ==
  LET row       == sq \div 8
      col       == sq % 8
      piece     == board[row][col]
      idx       == row * 8 + col
      mirrorIdx == (7 - row) * 8 + col
  IN  IF piece = NoPiece THEN 0
      ELSE LET value == PIECE_VALUES[piece.type]
               pst   == PST_MAP[piece.type]
           IN  IF piece.color = "w"
                 THEN value + pst[mirrorIdx + 1]
                 ELSE 0 - (value + pst[idx + 1])

RECURSIVE EvalFrom(_, _)
EvalFrom(board, sq) ==
  IF sq > 63 THEN 0 ELSE SquareScore(board, sq) + EvalFrom(board, sq + 1)

\* evaluate(game): the score of the board, positive = White is better
evaluate(board) == EvalFrom(board, 0)

(***************************************************************************)
(* The positions the rules engine answers with.  Start is a position with  *)
(* Black to move: White Kg1 Qa2 f2 g2 h2, Black Kg8 Ra8 Re8 f7 g7 h7       *)
(* (FEN r3r1k1/5ppp/8/8/8/8/Q4PPP/6K1 b - - 0 1).  There Re1# mates (f1    *)
(* and h1 are covered by the rook, nothing interposes on f1), Rxa2 wins    *)
(* the queen and h6 is a quiet move.                                       *)
(***************************************************************************)
StartPieces ==
  { Pc("w", "k", 7, 6), Pc("w", "q", 6, 0),
    Pc("w", "p", 6, 5), Pc("w", "p", 6, 6), Pc("w", "p", 6, 7),
    Pc("b", "k", 0, 6), Pc("b", "r", 0, 0), Pc("b", "r", 0, 4),
    Pc("b", "p", 1, 5), Pc("b", "p", 1, 6), Pc("b", "p", 1, 7) }

\* `pieces` after the piece on (r1, c1) went to (r2, c2), taking what was there
MovePiece(pieces, r1, c1, r2, c2) ==
  LET x == CHOOSE x \in pieces : x.row = r1 /\ x.col = c1
  IN  { y \in pieces : ~(y.row = r1 /\ y.col = c1) /\ ~(y.row = r2 /\ y.col = c2) }
        \cup { Pc(x.color, x.type, r2, c2) }

\* a legal move as game.moves({verbose: true}) reports it, with the position
\* it leads to: captured / promotion / san (a string, here its characters) are
\* the fields orderMoves reads, status is what the rules engine says of the
\* position after the move
Entry(san, captured, promotion, status, pieces) ==
  [san |-> san, captured |-> captured, promotion |-> promotion,
   status |-> status, board |-> BoardOf(pieces)]

Catalog ==
  << \* 1: h6, a quiet pawn move
     Entry(<<"h", "6">>, None, None, "playing", MovePiece(StartPieces, 1, 7, 2, 7)),
     \* 2: Rxa2, the rook takes the queen
     Entry(<<"R", "x", "a", "2">>, "q", None, "playing", MovePiece(StartPieces, 0, 0, 6, 0)),
     \* 3: Re1#, checkmate
     Entry(<<"R", "e", "1", "#">>, None, None, "checkmate", MovePiece(StartPieces, 0, 4, 7, 4)),
     \* 4: Re1+ with the white h-pawn on h3: a check the king escapes on h2
     Entry(<<"R", "e", "1", "+">>, None, None, "playing",
           MovePiece(MovePiece(StartPieces, 6, 7, 5, 7), 0, 4, 7, 4)),
     \* 5: Kxa2 in a bare ending: a draw by insufficient material, moves remain
     Entry(<<"K", "x", "a", "2">>, "q", None, "draw",
           { Pc("w", "k", 7, 6), Pc("b", "k", 6, 0) }),
     \* 6: a1=Q, a pawn promotes; a white knight on b1 shields the king
     Entry(<<"a", "1", "=", "Q">>, None, "q", "playing",
           StartPieces \cup { Pc("b", "q", 7, 0), Pc("w", "n", 7, 1) }),
     \* 7: Qf2, stalemate: White has no legal move and is not in check
     Entry(<<"Q", "f", "2">>, None, None, "stalemate",
           { Pc("w", "k", 7, 7), Pc("b", "q", 6, 5), Pc("b", "k", 0, 6) }),
     \* moves of White, for the games of the store
     \* 8: Qa2, a quiet move that leads to the position Start
     Entry(<<"Q", "a", "2">>, None, None, "playing", StartPieces),
     \* 9: h3, a quiet pawn move
     Entry(<<"h", "3">>, None, None, "playing", MovePiece(StartPieces, 6, 7, 5, 7)),
     \* 10: Ra8#, a back-rank checkmate
     Entry(<<"R", "a", "8", "#">>, None, None, "checkmate",
           { Pc("w", "k", 7, 6), Pc("w", "r", 0, 0), Pc("b", "k", 0, 6),
             Pc("b", "p", 1, 5), Pc("b", "p", 1, 6), Pc("b", "p", 1, 7) }),
     \* 11: Kxb7, the king takes the last piece: insufficient material
     Entry(<<"K", "x", "b", "7">>, "r", None, "draw",
           { Pc("w", "k", 1, 1), Pc("b", "k", 0, 6) }),
     \* 12: a8=Q#, a pawn promotes and mates on the back rank
     Entry(<<"a", "8", "=", "Q", "#">>, None, "q", "checkmate",
           { Pc("w", "k", 7, 6), Pc("w", "q", 0, 0), Pc("b", "k", 0, 6),
             Pc("b", "p", 1, 5), Pc("b", "p", 1, 6), Pc("b", "p", 1, 7) }),
     \* 13: Kg2 and 14: Kf1, king moves in the bare ending after Kxa2: the
     \* material stays insufficient
     Entry(<<"K", "g", "2">>, None, None, "draw",
           { Pc("w", "k", 6, 6), Pc("b", "k", 6, 0) }),
     Entry(<<"K", "f", "1">>, None, None, "draw",
           { Pc("w", "k", 7, 5), Pc("b", "k", 6, 0) }) >>

\* the moves of Black in the catalogue
BlackEntries == 1..7

\* game.inCheck() in each catalogued position: the side to move is in check
\* after Re1#, after Re1+, after Ra8# and after a8=Q#
CheckOf ==
  << FALSE, FALSE, TRUE, TRUE, FALSE, FALSE, FALSE, FALSE, FALSE, TRUE, FALSE,
     TRUE, FALSE, FALSE >>

\* the squares each catalogued move goes from and to
Files == << "a", "b", "c", "d", "e", "f", "g", "h" >>
FromOf ==
  << <<"h", 7>>, <<"a", 8>>, <<"e", 8>>, <<"e", 8>>, <<"b", 1>>, <<"a", 2>>,
     <<"f", 4>>, <<"d", 5>>, <<"h", 2>>, <<"a", 1>>, <<"c", 6>>, <<"a", 7>>,
     <<"g", 1>>, <<"g", 1>> >>
ToOf ==
  << <<"h", 6>>, <<"a", 2>>, <<"e", 1>>, <<"e", 1>>, <<"a", 2>>, <<"a", 1>>,
     <<"f", 2>>, <<"a", 2>>, <<"h", 3>>, <<"a", 8>>, <<"b", 7>>, <<"a", 8>>,
     <<"g", 2>>, <<"f", 1>> >>

\* evaluate of each catalogued position
EvalOf == [i \in DOMAIN Catalog |-> evaluate(Catalog[i].board)]

(***************************************************************************)
(* Game trees.  A parsable FEN stands for the game tree below its          *)
(* position: a node is the sequence of moves played from the root (each    *)
(* move the index of a legal move, in the rules engine's order), lab gives *)
(* every node but the root its catalogue entry, h is the height below      *)
(* which the tree is not described, w the number of legal moves of the     *)
(* root (every other position that has moves has Branch of them).          *)
(***************************************************************************)
RECURSIVE PathsOfLen(_)
PathsOfLen(n) ==
  IF n = 0 THEN { <<>> }
  ELSE { Append(p, i) : p \in PathsOfLen(n - 1), i \in 1..Branch }

Paths(h) == UNION { PathsOfLen(n) : n \in 1..h }

Parent(p) == SubSeq(p, 1, Len(p) - 1)

NoMovesStatus == { "checkmate", "stalemate" }

\* The trees of the model.  The varied nodes of a tree of height h <= 3 are
\* those reached by first and second moves only; a higher tree varies the
\* leaves of its leftmost binary subtree of height 2.  Every other node is
\* fixed: a quiet first move (entry 1), a checking second one (entry 4).
Varied(p, h) ==
  \A i \in 1..Len(p) : p[i] <= 2 /\ ((h > 3 /\ i <= h - 2) => p[i] = 1)

Fixed(p) == IF p[Len(p)] = 2 THEN 4 ELSE 1

\* the trees of height 1 vary their leaves over the whole catalogue; those of
\* height 2 vary the inner nodes (quiet, capture, mate, draw) and the leaves
\* (quiet, capture, mate, check); the deeper ones vary the leaves only
\* (quiet, capture, mate)
VariedInner(h) == IF h = 2 THEN { p \in PathsOfLen(1) : Varied(p, h) } ELSE {}

VariedLeaves(h) == IF h = 0 THEN {} ELSE { p \in PathsOfLen(h) : Varied(p, h) }

InnerChoices == { 1, 2, 3, 5 }

LeafChoices(h) ==
  IF h <= 1 THEN BlackEntries ELSE IF h = 2 THEN 1..4 ELSE 1..3

\* the labellings of the trees of height h whose root has w moves (of the
\* trees of height 3 and more, one move or Branch moves); the nodes the rules
\* engine is never asked for (below a position that is over, behind a move
\* the root does not have) carry entry 1
Labellings(h, w) ==
  LET vi    == VariedInner(h)
      vl    == VariedLeaves(h)
      paths == Paths(h)
      fixed == [p \in paths |-> Fixed(p)]
      unasked(l, p) ==
        \/ p[1] > w
        \/ Len(p) > 1 /\ Catalog[l[Parent(p)]].status # "playing"
  IN  IF (h = 0) # (w = 0) \/ (h >= 3 /\ w \notin { 1, Branch }) THEN {}
      ELSE { l \in { fl @@ fi @@ fixed : fi \in [vi -> InnerChoices],
                                         fl \in [vl -> LeafChoices(h)] } :
               \A p \in vi \cup vl : unasked(l, p) => l[p] = 1 }

Fen(h, w, l) == [valid |-> TRUE, h |-> h, w |-> w, lab |-> l]

\* a string the rules engine cannot parse
BadFen == [valid |-> FALSE, h |-> 0, w |-> 0, lab |-> <<>>]

Fens ==
  UNION { { Fen(h, w, l) : l \in Labellings(h, w) } :
          h \in 0..MaxDepth, w \in 0..Branch }

(***************************************************************************)
(* The rules engine (chess.js) as the search calls it.  A game is the FEN  *)
(* it was built from and the moves applied since.                          *)
(***************************************************************************)
\* new Chess(fen)
GameNew(fen) == [fen |-> fen, hist |-> <<>>]

\* the local `game` of findBestMove while no search runs
NoGame == GameNew(BadFen)

\* the Move the rules engine reports for the i-th legal move of a position
MoveOf(g, i) ==
  LET e == Catalog[g.fen.lab[Append(g.hist, i)]]
  IN  [id |-> i, san |-> e.san, captured |-> e.captured, promotion |-> e.promotion]

\* bestMove = null
Null == [id |-> 0, san |-> <<>>, captured |-> None, promotion |-> None]

\* what the rules engine says of the position of g (the root is asked only
\* for its moves)
StatusOf(g) ==
  IF g.hist = <<>>
    THEN (IF g.fen.h = 0 THEN "stalemate" ELSE "playing")
    ELSE Catalog[g.fen.lab[g.hist]].status

\* game.isGameOver()
isGameOver(g) == StatusOf(g) # "playing"

\* game.moves({verbose: true}), in the rules engine's order
GameMoves(g) ==
  IF Len(g.hist) >= g.fen.h \/ StatusOf(g) \in NoMovesStatus
    THEN <<>>
    ELSE [i \in 1..(IF g.hist = <<>> THEN g.fen.w ELSE Branch) |-> MoveOf(g, i)]

\* game.move(move)
GameMove(g, move) == [g EXCEPT !.hist = Append(@, move.id)]

\* an undo that leaves the move applied
GameUndoNoop(g) == g

\* game.undo()
GameUndo(g) ==
  IF g.hist = <<>> THEN g ELSE [g EXCEPT !.hist = SubSeq(@, 1, Len(@) - 1)]

\* game.board()
GameBoard(g) == Catalog[g.fen.lab[g.hist]].board

\* evaluate(game); the catalogued boards are evaluated once, in EvalOf
EvaluateGame(g) == EvalOf[g.fen.lab[g.hist]]

(***************************************************************************)
(* orderMoves (worker.ts).                                                 *)
(***************************************************************************)
\* a.san.includes('+')
SanIncludesPlus(san) == \E i \in 1..Len(san) : san[i] = "+"

\* scoreA / scoreB of the comparator
MoveScore(m) ==
    (IF m.captured # None THEN PIECE_VALUES[m.captured] * 10 ELSE 0)
  + (IF m.promotion # None THEN PIECE_VALUES[m.promotion] ELSE 0)
  + (IF SanIncludesPlus(m.san) THEN 50 ELSE 0)

\* the comparator: negative when a goes before b
Compare(a, b) == MoveScore(b) - MoveScore(a)

\* Array.prototype.sort is stable: m goes behind every element that does not
\* compare greater than it
RECURSIVE SortInsert(_, _)
SortInsert(sorted, m) ==
  IF sorted = <<>> THEN << m >>
  ELSE IF Compare(Head(sorted), m) <= 0
         THEN << Head(sorted) >> \o SortInsert(Tail(sorted), m)
         ELSE << m >> \o sorted

RECURSIVE SortFrom(_, _, _)
SortFrom(moves, k, sorted) ==
  IF k > Len(moves) THEN sorted
  ELSE SortFrom(moves, k + 1, SortInsert(sorted, moves[k]))

orderMoves(moves) == SortFrom(moves, 1, <<>>)

(***************************************************************************)
(* The games of the store, useGameStore.ts.  The store plays from the      *)
(* initial position with White (the human) to move.  Its game tree is      *)
(* followed for three plies: White has the moves Qa2 and h3, Black answers *)
(* Qa2 with Kxa2 (a draw by insufficient material, in which both sides     *)
(* still have legal moves) or Re1# and h3 with h6 or Re1+.  After Kxa2     *)
(* White has the king moves Kg2 and Kf1; elsewhere White's second move     *)
(* (Ra8#, and Kxb7 or after h6 the promotion a8=Q#) ends the game.         *)
(***************************************************************************)
\* the catalogued move that leads to node p of the store's game tree
StoreLab(p) ==
  IF p = <<>> THEN 0
  ELSE IF Len(p) = 1 THEN (IF p[1] = 1 THEN 8 ELSE 9)
  ELSE IF Len(p) = 2
    THEN (IF p[2] = 1 THEN (IF p[1] = 1 THEN 5 ELSE 1)
          ELSE IF p[2] = 2 THEN (IF p[1] = 1 THEN 3 ELSE 4)
          ELSE 6)
  ELSE IF p[1] = 1 /\ p[2] = 1
    THEN (IF p[3] = 1 THEN 13 ELSE IF p[3] = 2 THEN 14 ELSE 7)
  ELSE (IF p[3] = 1 THEN 10
        ELSE IF p[3] = 2 THEN (IF p[1] = 2 /\ p[2] = 1 THEN 12 ELSE 11)
        ELSE 7)

\* the initial position, new Chess()
InitialFen == Fen(3, 2, [p \in Paths(3) \cup { <<>> } |-> StoreLab(p)])

\* game.fen(): the position of g without the moves that led to it, the
\* string new Chess(fen) is built from in the Worker
GameFen(g) ==
  LET h == g.fen.h - Len(g.hist)
  IN  Fen(h, Len(GameMoves(g)),
          [q \in Paths(h) \cup { <<>> } |-> g.fen.lab[g.hist \o q]])

\* game.turn(): White moves first
GameTurn(g) == IF Len(g.hist) % 2 = 0 THEN "w" ELSE "b"

\* game.history({verbose: true})
GameHistory(g) ==
  [k \in 1..Len(g.hist) |->
     MoveOf([g EXCEPT !.hist = SubSeq(g.hist, 1, k - 1)], g.hist[k])]

\* game.inCheck()
GameInCheck(g) == IF g.hist = <<>> THEN FALSE ELSE CheckOf[g.fen.lab[g.hist]]

\* the legal moves of g that game.move({from, to, promotion}) accepts: from
\* and to are the move's squares, and a promoting move needs its piece
MovesFromTo(g, from, to, promotion) ==
  { i \in 1..Len(GameMoves(g)) :
      LET k == g.fen.lab[Append(g.hist, i)]
      IN  /\ FromOf[k] = from
          /\ ToOf[k] = to
          /\ Catalog[k].promotion \in { None, promotion } }

\* the first of the moves ms, in the order of game.moves
FirstOf(ms) == CHOOSE i \in ms : \A j \in ms : i <= j

\* const move = game.move({from, to, promotion}): the game after the move,
\* or the game as it was when the move is not legal (game.move throws, or
\* returns null)
GameMoveFromTo(g, from, to, promotion) ==
  IF MovesFromTo(g, from, to, promotion) = {} THEN g
  ELSE GameMove(g, MoveOf(g, FirstOf(MovesFromTo(g, from, to, promotion))))

\* a square that is null, a pair of squares that is null
NoSquare == <<>>
NoFromTo == [from |-> NoSquare, to |-> NoSquare]

\* findKingSquare(game, color): the first square, by rows and then columns,
\* that holds the king of that colour
findKingSquare(g, color) ==
  LET board == GameBoard(g)
      ks == { rc \in (0..7) \X (0..7) :
                board[rc[1]][rc[2]].type = "k" /\ board[rc[1]][rc[2]].color = color }
  IN  IF ks = {} THEN NoSquare
      ELSE LET rc == CHOOSE x \in ks :
                       \A y \in ks : x[1] < y[1] \/ (x[1] = y[1] /\ x[2] <= y[2])
           IN  << Files[rc[2] + 1], 8 - rc[1] >>

\* getGameStatus(game); the drawn positions of the catalogue are draws by
\* insufficient material, and no position of the tree occurs three times
getGameStatus(g) ==
  IF StatusOf(g) = "checkmate" THEN "checkmate"
  ELSE IF StatusOf(g) = "stalemate" THEN "stalemate"
  ELSE IF StatusOf(g) = "draw" THEN "insufficient"
  ELSE "playing"

\* the initial state of the store (isGameStarted, theme, soundEnabled and
\* showLegalMoves, which no action of the store's game reads, are left out)
InitialState ==
  [game |-> GameNew(InitialFen), fen |-> GameFen(GameNew(InitialFen)),
   history |-> <<>>, status |-> "playing", turn |-> "w", gameMode |-> "ai",
   selectedSquare |-> NoSquare, legalMoves |-> <<>>,
   lastMove |-> NoFromTo, kingInCheck |-> NoSquare, pendingPromotion |-> NoFromTo,
   aiEnabled |-> TRUE, aiThinking |-> FALSE, aiDepth |-> 3]

(***************************************************************************)
(* State.                                                                  *)
(***************************************************************************)
VARIABLES
  \* main thread, ai.ts
  worker,     \* the module variable `worker`: 0 = null, else the Worker's number
  created,    \* how many Workers have been constructed (numbered 1..created)
  terminated, \* the Workers on which terminate() was called
  onmessage,  \* worker.onmessage: the promise whose resolve it calls (0 = unset)
  onerror,    \* worker.onerror: the promise whose reject it calls (0 = unset)
  promises,   \* the promises findBestMoveAsync returned, in call order
  \* the live Worker, worker.ts
  inbox,      \* messages posted to the Worker, not yet handled
  outbox,     \* message and error events of the Worker, not yet dispatched
  wpc,        \* "idle", or "running" inside self.onmessage
  job,        \* e.data of the message being handled
  game,       \* the local `game` of findBestMove
  stack,      \* the call stack: findBestMove, then the nested minimax calls
  \* history, for stating properties
  trace,      \* the calls of the running (or last) search, in order
  runs,       \* the finished searches of the Worker: request, trace, outcome
  \* a function of worker.ts called on its own
  call,       \* the call: its function, its argument before and after, its result
  \* the game store, useGameStore.ts
  store,      \* the state object of the store
  \* the board, ChessBoard
  draggingFrom \* the square a piece is being dragged from (NoSquare = null)

mainVars == << worker, created, terminated, onmessage, onerror, promises >>
workerVars == << inbox, outbox, wpc, job, game, stack >>
histVars == << trace, runs >>
pureVars == << call >>
storeVars == << store, draggingFrom >>
vars == << mainVars, workerVars, histVars, pureVars, storeVars >>

\* one call of the search, as recorded in trace: op is "new" (new Chess),
\* "moves", "move", "undo", "isGameOver", "evaluate", "minimax", and "return"
\* for a return of minimax; hist is the position it was made in; n is the
\* move for "move", the depth for "minimax", the value for "return"
Event(op, hist, n) == [op |-> op, hist |-> hist, n |-> n]

NoJob == [fen |-> BadFen, depth |-> 0, rid |-> 0]

\* no function is called on its own
NoCall == [fn |-> "none"]

(***************************************************************************)
(* The search, worker.ts.  A frame of the stack is one activation of       *)
(* findBestMove (best = bestEval) or of minimax (best = maxEval or         *)
(* minEval); i is the index in `moves` of the move the for loop is at; pc  *)
(* is "loop" inside the for loop and "return" at the return statement,     *)
(* val the value minimax returns; entry is the position at the call.       *)
(***************************************************************************)
Frame(fn, depth, alpha, beta, isMaximizing, moves, best, pc, val, entry) ==
  [fn |-> fn, depth |-> depth, alpha |-> alpha, beta |-> beta,
   isMaximizing |-> isMaximizing, moves |-> moves, i |-> 1, best |-> best,
   bestMove |-> Null, pc |-> pc, val |-> val, entry |-> entry]

\* bestEval starting where a maximizing search would start
RootInitEvalMax == 0 - Infinity

\* bestEval kept in a module variable and not set again for the next search
RootInitEvalStale ==
  IF runs = <<>> THEN Infinity ELSE runs[Len(runs)].bestEval

\* let bestEval = Infinity
RootInitEval == Infinity

\* findBestMove up to its for loop: the moves of the root, ordered; with no
\* move it is at `return null`
RootFrame(g, depth) ==
  LET moves == orderMoves(GameMoves(g))
  IN  Frame("findBestMove", depth, 0 - Infinity, Infinity, FALSE, moves,
            RootInitEval, IF Len(moves) = 0 THEN "return" ELSE "loop", 0, g.hist)

\* a test that leaves out game.isGameOver()
IsTerminalDepthOnly(g, depth) == depth = 0

\* depth === 0 || game.isGameOver()
IsTerminal(g, depth) == depth = 0 \/ isGameOver(g)

\* minimax up to its for loop: at a terminal node it is at `return
\* evaluate(game)`; with no move to loop over, at `return maxEval / minEval`
MinimaxFrame(g, depth, alpha, beta, isMaximizing) ==
  IF IsTerminal(g, depth)
    THEN Frame("minimax", depth, alpha, beta, isMaximizing, <<>>, 0,
               "return", EvaluateGame(g), g.hist)
    ELSE LET moves == orderMoves(GameMoves(g))
             best  == IF isMaximizing THEN 0 - Infinity ELSE Infinity
         IN  Frame("minimax", depth, alpha, beta, isMaximizing, moves, best,
                   IF Len(moves) = 0 THEN "return" ELSE "loop", best, g.hist)

\* the calls MinimaxFrame makes
MinimaxEvents(g, depth) ==
  << Event("minimax", g.hist, depth) >>
  \o (IF depth = 0 THEN <<>> ELSE << Event("isGameOver", g.hist, 0) >>)
  \o (IF IsTerminal(g, depth)
        THEN << Event("evaluate", g.hist, 0) >>
        ELSE << Event("moves", g.hist, 0) >>)

\* the cutoff test with its operands exchanged
CutoffInverted(alpha, beta) == alpha <= beta

\* a loop without the break
CutoffNever(alpha, beta) == FALSE

\* if (beta <= alpha) break
Cutoff(alpha, beta) == beta <= alpha

\* a root loop that keeps the move scored last
RootImprovesAlways(evalScore, bestEval) == TRUE

\* a root loop that also takes a move of equal score
RootImprovesOrEqual(evalScore, bestEval) == evalScore <= bestEval

\* if (evalScore < bestEval)
RootImproves(evalScore, bestEval) == evalScore < bestEval

\* the caller's frame after a child returned evalScore and was undone: the
\* running best and the bounds updated, then the cutoff test or the strict
\* improvement test of the root, then the next move or the return
AfterChild(f, evalScore) ==
  LET last == f.i >= Len(f.moves) IN
  IF f.fn = "findBestMove"
    THEN LET better == RootImproves(evalScore, f.best)
         IN  [f EXCEPT !.best = IF better THEN evalScore ELSE @,
                       !.bestMove = IF better THEN f.moves[f.i] ELSE @,
                       !.i = @ + 1,
                       !.pc = IF last THEN "return" ELSE "loop"]
  ELSE IF f.isMaximizing
    THEN LET maxEval == Max(f.best, evalScore)
             alpha   == Max(f.alpha, evalScore)
             done    == Cutoff(alpha, f.beta) \/ last
         IN  [f EXCEPT !.best = maxEval, !.alpha = alpha, !.i = @ + 1,
                       !.pc = IF done THEN "return" ELSE "loop",
                       !.val = maxEval]
    ELSE LET minEval == Min(f.best, evalScore)
             beta    == Min(f.beta, evalScore)
             done    == Cutoff(f.alpha, beta) \/ last
         IN  [f EXCEPT !.best = minEval, !.beta = beta, !.i = @ + 1,
                       !.pc = IF done THEN "return" ELSE "loop",
                       !.val = minEval]

Top == stack[Len(stack)]

\* a handler that throws instead of posting null
ResponseThrowsOnNull(type, data) ==
  [type |-> IF data = Null THEN "error" ELSE type, data |-> data,
   rid |-> job.rid, wid |-> worker]

\* self.postMessage(bestMove), or the error event of an uncaught exception
Response(type, data) ==
  [type |-> type, data |-> data, rid |-> job.rid, wid |-> worker]

\* self.onmessage, up to the for loop of findBestMove: new Chess(fen) throws
\* on a FEN it cannot parse, and the Worker reports the uncaught exception
\* as an error event
WorkerOnMessage ==
  /\ wpc = "idle"
  /\ inbox # <<>>
  /\ LET m == Head(inbox) IN
       /\ inbox' = Tail(inbox)
       /\ IF ~m.fen.valid
            THEN /\ outbox' = Append(outbox,
                       [type |-> "error", data |-> Null, rid |-> m.rid, wid |-> worker])
                 /\ runs' = Append(runs, [fen |-> m.fen, depth |-> m.depth, rid |-> m.rid,
                                          trace |-> << Event("new", <<>>, 0) >>,
                                          type |-> "error", result |-> Null,
                                          bestEval |-> 0])
                 /\ trace' = << Event("new", <<>>, 0) >>
                 /\ UNCHANGED << wpc, job, game, stack >>
            ELSE /\ wpc' = "running"
                 /\ job' = m
                 /\ game' = GameNew(m.fen)
                 /\ stack' = << RootFrame(GameNew(m.fen), m.depth) >>
                 /\ trace' = << Event("new", <<>>, 0), Event("moves", <<>>, 0) >>
                 /\ UNCHANGED << outbox, runs >>
  /\ UNCHANGED << mainVars, pureVars, storeVars >>

\* game.move(move) and the call of minimax, up to its for loop
Descend ==
  /\ wpc = "running"
  /\ Top.pc = "loop"
  /\ LET f    == Top
         move == f.moves[f.i]
         g    == GameMove(game, move)
         root == f.fn = "findBestMove"
         sub  == MinimaxFrame(g, f.depth - 1,
                              IF root THEN 0 - Infinity ELSE f.alpha,
                              IF root THEN Infinity ELSE f.beta,
                              IF root THEN TRUE ELSE ~f.isMaximizing)
     IN  /\ game' = g
         /\ stack' = Append(stack, sub)
         /\ trace' = trace \o << Event("move", game.hist, move.id) >>
                           \o MinimaxEvents(g, f.depth - 1)
  /\ UNCHANGED << mainVars, inbox, outbox, wpc, job, runs, pureVars, storeVars >>

\* minimax returns; the caller undoes the move and goes on after the call
Return ==
  /\ wpc = "running"
  /\ Len(stack) >= 2
  /\ Top.pc = "return"
  /\ LET n == Len(stack) IN
       /\ game' = GameUndo(game)
       /\ stack' = [SubSeq(stack, 1, n - 1) EXCEPT ![n - 1] = AfterChild(@, stack[n].val)]
       /\ trace' = trace \o << Event("return", game.hist, stack[n].val),
                                Event("undo", game.hist, 0) >>
  /\ UNCHANGED << mainVars, inbox, outbox, wpc, job, runs, pureVars, storeVars >>

\* findBestMove returns bestMove (null when the root has no move) and
\* self.onmessage posts it
Finish ==
  /\ wpc = "running"
  /\ Len(stack) = 1
  /\ Top.pc = "return"
  /\ LET resp == Response("message", Top.bestMove) IN
       /\ outbox' = Append(outbox, resp)
       /\ runs' = Append(runs, [fen |-> job.fen, depth |-> job.depth, rid |-> job.rid,
                                trace |-> trace, type |-> resp.type,
                                result |-> resp.data, bestEval |-> Top.best])
  /\ wpc' = "idle"
  /\ job' = NoJob
  /\ game' = NoGame
  /\ stack' = <<>>
  /\ UNCHANGED << mainVars, inbox, trace, pureVars, storeVars >>

(***************************************************************************)
(* The search alone: a live Worker that was sent one request.              *)
(***************************************************************************)
\* The requests of the model.  A depth beyond the described height needs
\* the lowest nodes to be over (a position that is not over has a legal
\* move); the trees of height 3 and more are searched to their full height.
Describes(fen, depth) ==
  IF fen.h >= 3 THEN depth = fen.h
  ELSE IF depth <= fen.h \/ fen.h = 0 THEN TRUE
  ELSE \A p \in PathsOfLen(fen.h) :
         p[1] <= fen.w => Catalog[fen.lab[p]].status # "playing"

\* a promise findBestMoveAsync returns.  History: wid is the Worker the
\* request was posted to, settles counts the calls of its resolve and reject,
\* by / bywid are the request and the Worker of the event that settled it
Pending(fen, depth, wid) ==
  [fen |-> fen, depth |-> depth, state |-> "pending", value |-> Null,
   wid |-> wid, settles |-> 0, by |-> 0, bywid |-> 0]

SearchInit ==
  \E fen \in Fens, depth \in 1..MaxDepth :
    /\ Describes(fen, depth)
    /\ worker = 1
    /\ created = 1
    /\ terminated = {}
    /\ onmessage = 1
    /\ onerror = 1
    /\ promises = << Pending(fen, depth, 1) >>
    /\ inbox = << [fen |-> fen, depth |-> depth, rid |-> 1] >>
    /\ outbox = <<>>
    /\ wpc = "idle"
    /\ job = NoJob
    /\ game = NoGame
    /\ stack = <<>>
    /\ trace = <<>>
    /\ runs = <<>>
    /\ call = NoCall
    /\ store = InitialState
    /\ draggingFrom = NoSquare

SearchNext == WorkerOnMessage \/ Descend \/ Return \/ Finish

SearchSpec == SearchInit /\ [][SearchNext]_vars

(***************************************************************************)
(* Properties of the search.                                               *)
(***************************************************************************)
SetMax(S) == CHOOSE x \in S : \A y \in S : y <= x
SetMin(S) == CHOOSE x \in S : \A y \in S : x <= y

\* minimax without alpha, beta and the break: every move of every node
RECURSIVE PlainMinimax(_, _, _)
PlainMinimax(g, depth, isMaximizing) ==
  IF IsTerminal(g, depth) THEN EvaluateGame(g)
  ELSE LET moves == GameMoves(g)
           vals  == { PlainMinimax(GameMove(g, moves[k]), depth - 1, ~isMaximizing) :
                        k \in DOMAIN moves }
       IN  IF isMaximizing THEN SetMax(vals \cup { 0 - Infinity })
                           ELSE SetMin(vals \cup { Infinity })

\* the legal moves of the root of a request
RootMoves(fen) == GameMoves(GameNew(fen))

\* the position after root move number i
RootChild(fen, i) == [fen |-> fen, hist |-> << i >>]

CountOps(tr, ops) == Cardinality({ k \in DOMAIN tr : tr[k].op \in ops })

\* C1: alpha-beta equivalence.  The score minimax returns to findBestMove
\* for a root move (window -Infinity, +Infinity, with the beta <= alpha
\* cutoffs) is the score of the plain minimax traversal of that move's
\* subtree, and the best root score findBestMove ends with is the lowest
\* plain score of a root move.
AlphaBetaEquivalence ==
  wpc = "running" =>
    /\ (Len(stack) = 2 /\ Top.pc = "return")
         => Top.val = PlainMinimax(game, Top.depth, TRUE)
    /\ (Len(stack) = 1 /\ Top.pc = "return" /\ Top.moves # <<>>)
         => Top.best = SetMin({ PlainMinimax(RootChild(job.fen, i), job.depth - 1, TRUE) :
                                  i \in DOMAIN RootMoves(job.fen) })

\* a search of depth 3 ended having skipped a leaf by a cutoff
AlphaBetaWitness ==
  /\ wpc = "running" /\ Len(stack) = 1 /\ Top.pc = "return"
  /\ job.depth = 3 /\ job.fen.h = 3
  /\ CountOps(trace, {"evaluate"})
       < Cardinality({ p \in PathsOfLen(3) : p[1] <= job.fen.w })
  /\ AlphaBetaEquivalence

\* C2: a root with a legal move gets a move of the root's legal-move list,
\* never null; with exactly one legal move, that move, for every depth.
BestMoveIsLegal ==
  \A k \in DOMAIN runs :
    LET r == runs[k]
        legal == RootMoves(r.fen)
    IN  (r.fen.valid /\ legal # <<>> /\ r.depth >= 1) =>
          /\ r.type = "message"
          /\ r.result # Null
          /\ \E i \in DOMAIN legal : legal[i] = r.result
          /\ Len(legal) = 1 => r.result = legal[1]

\* a search of depth 2 or more of a root with a single legal move ended
SingleMoveWitness ==
  \E k \in DOMAIN runs :
    /\ runs[k].fen.valid /\ runs[k].fen.w = 1 /\ runs[k].depth >= 2
    /\ runs[k].result = RootMoves(runs[k].fen)[1]

\* C3: a root without legal moves gets null, posted as a message and not
\* as an error, and the search made no call but new Chess and game.moves:
\* no evaluate, no game.move, no minimax.
NoMoveAtRoot ==
  \A k \in DOMAIN runs :
    LET r == runs[k] IN
      (r.fen.valid /\ RootMoves(r.fen) = <<>>) =>
        /\ r.type = "message"
        /\ r.result = Null
        /\ \A j \in DOMAIN r.trace : r.trace[j].op \in {"new", "moves"}
        /\ \E j \in DOMAIN outbox :
             /\ outbox[j].rid = r.rid
             /\ outbox[j].type = "message"
             /\ outbox[j].data = Null

\* the request for a root without legal moves was answered
NoMoveWitness ==
  \E k \in DOMAIN runs :
    /\ runs[k].fen.valid /\ RootMoves(runs[k].fen) = <<>>
    /\ outbox # <<>>

\* whether root move m of fen leaves the opponent checkmated
DeliversMate(fen, m) ==
  Catalog[fen.lab[<< m.id >>]].status = "checkmate"

\* C4: mate in one.  When a legal move of the root checkmates, the move
\* findBestMove returns checkmates, for every depth >= 1.
MateInOne ==
  \A k \in DOMAIN runs :
    LET r == runs[k]
        legal == RootMoves(r.fen)
    IN  (r.fen.valid /\ r.depth >= 1
           /\ \E i \in DOMAIN legal : DeliversMate(r.fen, legal[i])) =>
          (r.result # Null /\ DeliversMate(r.fen, r.result))

\* the position the recorded game.move and game.undo calls lead to: every
\* call is made in the position its predecessors left, an undo takes back
\* the most recent move not yet undone; << 0 >> when that is not so
RECURSIVE Replay(_, _, _)
Replay(tr, k, pos) ==
  IF k > Len(tr) THEN pos
  ELSE LET e == tr[k] IN
       IF e.hist # pos THEN << 0 >>
       ELSE IF e.op = "move" THEN Replay(tr, k + 1, Append(pos, e.n))
       ELSE IF e.op = "undo"
         THEN (IF pos = <<>> THEN << 0 >>
               ELSE Replay(tr, k + 1, SubSeq(pos, 1, Len(pos) - 1)))
       ELSE Replay(tr, k + 1, pos)

\* C5: apply / undo discipline.  The moves applied and not yet undone are
\* exactly the nesting of the minimax calls: a call at remaining depth d is
\* entered with (root depth - d) moves outstanding, every undo takes back
\* the most recent outstanding move (the calls of a whole search, replayed,
\* are each made in the position its predecessors left), and at each return
\* statement, and when findBestMove is done, the position is the one at
\* entry.
ApplyUndoDiscipline ==
  /\ wpc = "running" =>
       /\ Len(game.hist) = Len(stack) - 1
       /\ \A k \in DOMAIN stack :
            /\ stack[k].entry = SubSeq(game.hist, 1, k - 1)
            /\ stack[k].depth = job.depth - (k - 1)
       /\ Top.entry = game.hist
  /\ \A k \in DOMAIN runs :
       runs[k].type = "message" =>
         /\ Replay(runs[k].trace, 1, <<>>) = <<>>
         /\ CountOps(runs[k].trace, {"move"}) = CountOps(runs[k].trace, {"undo"})

\* three moves are outstanding, and the call below them has left its loop by
\* a break: its next move was not applied
ApplyUndoWitness ==
  /\ wpc = "running" /\ Len(stack) = 3 /\ Len(game.hist) = 2
  /\ Top.pc = "return" /\ Top.moves # <<>> /\ Top.i <= Len(Top.moves)
  /\ CountOps(trace, {"undo"}) >= 3

(***************************************************************************)
(* Repeated searches: a live Worker that was sent a request, another       *)
(* request for the same position, and the first request again.             *)
(***************************************************************************)
RepeatFens == { fen \in Fens : fen.h <= 2 }

RepeatInit ==
  \E fen \in RepeatFens, d1 \in 1..MaxDepth, d2 \in 1..MaxDepth :
    /\ Describes(fen, d1) /\ Describes(fen, d2)
    /\ worker = 1
    /\ created = 1
    /\ terminated = {}
    /\ onmessage = 3
    /\ onerror = 3
    /\ promises = << Pending(fen, d1, 1), Pending(fen, d2, 1), Pending(fen, d1, 1) >>
    /\ inbox = << [fen |-> fen, depth |-> d1, rid |-> 1],
                  [fen |-> fen, depth |-> d2, rid |-> 2],
                  [fen |-> fen, depth |-> d1, rid |-> 3] >>
    /\ outbox = <<>>
    /\ wpc = "idle"
    /\ job = NoJob
    /\ game = NoGame
    /\ stack = <<>>
    /\ trace = <<>>
    /\ runs = <<>>
    /\ call = NoCall
    /\ store = InitialState
    /\ draggingFrom = NoSquare

RepeatSpec == RepeatInit /\ [][SearchNext]_vars

\* C10: determinism.  Two searches of the same position to the same depth
\* in one Worker make the same calls in the same order (the same nodes are
\* visited) and return the same move, whatever was searched in between.
Determinism ==
  \A i \in DOMAIN runs, j \in DOMAIN runs :
    (runs[i].fen = runs[j].fen /\ runs[i].depth = runs[j].depth) =>
      /\ runs[i].trace = runs[j].trace
      /\ runs[i].type = runs[j].type
      /\ runs[i].result = runs[j].result

\* the first request was searched again after a search to another depth,
\* and returned a move
DeterminismWitness ==
  /\ Len(runs) = 3
  /\ runs[2].depth # runs[1].depth
  /\ runs[3].result # Null
  /\ Len(runs[3].trace) > 4
  /\ runs[3].trace = runs[1].trace

(***************************************************************************)
(* The dispatcher, ai.ts, with its Worker.                                 *)
(***************************************************************************)
\* the positions submitted: Start reduced to the moves Rxa2 and Re1#, to
\* the moves h6 and Re1+, a position without legal moves, an unparsable FEN
MateFen == Fen(1, 2, [p \in Paths(1) |-> IF p[1] = 1 THEN 2 ELSE IF p[1] = 2 THEN 3 ELSE 1])
QuietFen == Fen(1, 2, [p \in Paths(1) |-> IF p[1] = 1 THEN 1 ELSE IF p[1] = 2 THEN 4 ELSE 1])
NoMoveFen == Fen(0, 0, <<>>)

SpecRequests ==
  { [fen |-> MateFen, depth |-> 1], [fen |-> QuietFen, depth |-> 1],
    [fen |-> NoMoveFen, depth |-> 2], [fen |-> BadFen, depth |-> 1] }

\* a Worker is constructed for every call
NeedsWorkerAlways(w) == TRUE

\* if (!worker)
NeedsWorker(w) == w = 0

\* terminateAI dropping the reference without worker.terminate()
TerminateForgotten(t, w) == t

\* worker.terminate()
Terminate(t, w) == t \cup { w }

\* resolve(e.data) or reject(err) of promise pid, called for event e: only
\* the first call settles a promise
Settle(ps, pid, state, e) ==
  [ps EXCEPT ![pid] =
     IF @.state = "pending"
       THEN [@ EXCEPT !.state = state, !.value = e.data, !.settles = @ + 1,
                      !.by = e.rid, !.bywid = e.wid]
       ELSE [@ EXCEPT !.settles = @ + 1]]

\* a handler that is set only when the Worker has none
HandlerKeptIfSet(current, pid) == IF current = 0 THEN pid ELSE current

\* worker.onmessage = ..., worker.onerror = ...: the assignment replaces the
\* handler the Worker had
Handler(current, pid) == pid

\* findBestMoveAsync(fen, depth), ps being the promises returned so far: the
\* Worker is constructed when there is none, both handlers are set to this
\* promise's resolve and reject, and the request is posted
findBestMoveAsyncIn(ps, fen, depth) ==
  /\ Len(ps) < MaxRequests
  /\ LET pid == Len(ps) + 1
         new == NeedsWorker(worker)
         w   == IF new THEN created + 1 ELSE worker
     IN  /\ created' = IF new THEN created + 1 ELSE created
         /\ worker' = w
         /\ promises' = Append(ps, Pending(fen, depth, w))
         /\ onmessage' = Handler(IF new THEN 0 ELSE onmessage, pid)
         /\ onerror' = Handler(IF new THEN 0 ELSE onerror, pid)
         /\ inbox' = Append(inbox, [fen |-> fen, depth |-> depth, rid |-> pid])
  /\ UNCHANGED << terminated, wpc, job, game, stack, histVars, pureVars >>

\* findBestMoveAsync(fen, depth) called from a task of its own
findBestMoveAsync(fen, depth) ==
  /\ findBestMoveAsyncIn(promises, fen, depth)
  /\ UNCHANGED outbox

\* terminateAI(): terminate() stops the Worker at once and discards its
\* queued messages and its undispatched events; with no Worker, nothing
terminateAI ==
  IF worker # 0
    THEN /\ terminated' = Terminate(terminated, worker)
         /\ worker' = 0
         /\ onmessage' = 0
         /\ onerror' = 0
         /\ inbox' = <<>>
         /\ outbox' = <<>>
         /\ wpc' = "idle"
         /\ job' = NoJob
         /\ game' = NoGame
         /\ stack' = <<>>
         /\ UNCHANGED << created, promises, histVars, pureVars, storeVars >>
    ELSE UNCHANGED vars

\* worker.onmessage: resolve(e.data)
WorkerMessageEvent ==
  /\ outbox # <<>>
  /\ Head(outbox).type = "message"
  /\ promises' = Settle(promises, onmessage, "fulfilled", Head(outbox))
  /\ outbox' = Tail(outbox)
  /\ UNCHANGED << worker, created, terminated, onmessage, onerror,
                  inbox, wpc, job, game, stack, histVars, pureVars, storeVars >>

\* worker.onerror: reject(err)
WorkerErrorEvent ==
  /\ outbox # <<>>
  /\ Head(outbox).type = "error"
  /\ promises' = Settle(promises, onerror, "rejected", Head(outbox))
  /\ outbox' = Tail(outbox)
  /\ UNCHANGED << worker, created, terminated, onmessage, onerror,
                  inbox, wpc, job, game, stack, histVars, pureVars, storeVars >>

Init ==
  /\ worker = 0
  /\ created = 0
  /\ terminated = {}
  /\ onmessage = 0
  /\ onerror = 0
  /\ promises = <<>>
  /\ inbox = <<>>
  /\ outbox = <<>>
  /\ wpc = "idle"
  /\ job = NoJob
  /\ game = NoGame
  /\ stack = <<>>
  /\ trace = <<>>
  /\ runs = <<>>
  /\ call = NoCall
  /\ store = InitialState
  /\ draggingFrom = NoSquare

Submit ==
  /\ \E r \in SpecRequests : findBestMoveAsync(r.fen, r.depth)
  /\ UNCHANGED storeVars

Next ==
  \/ Submit
  \/ terminateAI
  \/ WorkerMessageEvent
  \/ WorkerErrorEvent
  \/ WorkerOnMessage
  \/ Descend
  \/ Return
  \/ Finish

Spec == Init /\ [][Next]_vars

(***************************************************************************)
(* Properties of the dispatcher.                                           *)
(***************************************************************************)
\* nothing is left to do: no request queued or being searched, no event
\* waiting for its handler
Quiescent == wpc = "idle" /\ inbox = <<>> /\ outbox = <<>>

LiveWorkers == (1..created) \ terminated

\* C6: exactly one response per request.  Every promise returned by
\* findBestMoveAsync is settled exactly once: when nothing is left to do,
\* each promise has been resolved or rejected, by exactly one call.
ExactlyOneResponse ==
  Quiescent =>
    \A p \in DOMAIN promises :
      promises[p].state # "pending" /\ promises[p].settles = 1

\* C7: a failure inside the Worker reaches its submitter as a rejection.
\* The promise of a request with an unparsable FEN is never resolved (with
\* null or with a move), it is rejected once its Worker has nothing left
\* to do, and the search made no call after new Chess threw.
FailureIsRejection ==
  /\ \A p \in DOMAIN promises :
       ~promises[p].fen.valid =>
         /\ promises[p].state # "fulfilled"
         /\ (Quiescent /\ promises[p].wid = worker) => promises[p].state = "rejected"
  /\ \A k \in DOMAIN runs :
       ~runs[k].fen.valid =>
         runs[k].type = "error" /\ runs[k].trace = << Event("new", <<>>, 0) >>

\* C8: singleton worker.  At most one Worker is live and it is the one the
\* dispatcher references; none exists before the first call; the first call
\* constructs Worker 1 and each later call posts to the Worker of the call
\* before it, unless that one was terminated.
SingletonWorker ==
  /\ Cardinality(LiveWorkers) <= 1
  /\ LiveWorkers = (IF worker = 0 THEN {} ELSE { worker })
  /\ promises = <<>> => created = 0
  /\ \A p \in DOMAIN promises :
       IF p = 1 THEN promises[p].wid = 1
       ELSE \/ promises[p].wid = promises[p - 1].wid
            \/ /\ promises[p].wid = promises[p - 1].wid + 1
               /\ promises[p - 1].wid \in terminated

\* three requests, two of them outstanding, all posted to the one Worker
SingletonWitness ==
  /\ Len(promises) = 3 /\ created = 1 /\ worker = 1
  /\ \A p \in DOMAIN promises : promises[p].wid = 1
  /\ promises[2].state = "pending" /\ promises[3].state = "pending"
  /\ Len(inbox) + (IF wpc = "running" THEN 1 ELSE 0) >= 2

\* C9: shutdown and re-creation.  A step that clears the reference
\* terminates that Worker and discards its queued requests, its running
\* search and its undispatched results; a promise is only ever settled by
\* an event of the live Worker, for a request posted to that Worker; with no
\* Worker, terminateAI changes nothing; the first call after a terminateAI
\* constructs a fresh Worker, which alone holds the request, and every
\* result waiting for dispatch comes from the Worker its request was
\* posted to.
ShutdownStep ==
  /\ (worker # 0 /\ worker' = 0) =>
       /\ worker \in terminated'
       /\ inbox' = <<>> /\ outbox' = <<>> /\ wpc' = "idle" /\ stack' = <<>>
  /\ (worker = 0 /\ worker' = 0) =>
       (terminated' = terminated /\ created' = created)
  /\ (Len(promises') = Len(promises) /\ promises' # promises) =>
       /\ outbox # <<>>
       /\ Head(outbox).wid = worker
       /\ worker \notin terminated
       /\ \A p \in DOMAIN promises :
            promises'[p] # promises[p] =>
              (promises[p].wid = worker /\ promises[Head(outbox).rid].wid = worker)
  /\ (worker = 0 /\ Len(promises') > Len(promises)) =>
       /\ created' = created + 1
       /\ worker' = created'
       /\ worker' \notin terminated'
       /\ promises'[Len(promises')].wid = worker'
       /\ Len(inbox') = 1 /\ inbox'[1].rid = Len(promises')
  /\ \A k \in DOMAIN outbox' :
       /\ outbox'[k].wid = worker'
       /\ promises'[outbox'[k].rid].wid = worker'

ShutdownAndRecreation == [][ShutdownStep]_vars

\* Worker 1 was terminated with its request unanswered, and the request
\* submitted afterwards was answered by Worker 2
ShutdownWitness ==
  /\ Len(promises) = 2 /\ worker = 2 /\ 1 \in terminated
  /\ promises[1].wid = 1 /\ promises[1].state = "pending"
  /\ \A k \in DOMAIN runs : runs[k].rid # 1
  /\ promises[2].wid = 2 /\ promises[2].state = "fulfilled"
  /\ promises[2].by = 2 /\ promises[2].bywid = 2

(***************************************************************************)
(* Permuted searches: a live Worker that was sent a request and the same   *)
(* request for the position whose rules engine returns two legal moves of  *)
(* one node in exchanged order.                                            *)
(***************************************************************************)
SwapIndex(k, i, j) == IF k = i THEN j ELSE IF k = j THEN i ELSE k

\* node p when the i-th and the j-th move of node q change places
SwapAt(p, q, i, j) ==
  IF Len(p) > Len(q) /\ SubSeq(p, 1, Len(q)) = q
    THEN [p EXCEPT ![Len(q) + 1] = SwapIndex(@, i, j)]
    ELSE p

\* the position of fen with game.moves returning the i-th and the j-th move
\* of node q in each other's place
Permuted(fen, q, i, j) ==
  [fen EXCEPT !.lab = [p \in DOMAIN fen.lab |-> fen.lab[SwapAt(p, q, i, j)]]]

\* the exchanges of two legal moves of a node the search can reach
Swaps(fen) ==
  { s \in [q : { <<>> } \cup Paths(fen.h - 1), i : 1..Branch, j : 1..Branch] :
      /\ s.i < s.j
      /\ s.j <= Len(GameMoves([fen |-> fen, hist |-> s.q]))
      /\ \A k \in 1..Len(s.q) :
           s.q[k] <= Len(GameMoves([fen |-> fen, hist |-> SubSeq(s.q, 1, k - 1)])) }

\* the trees searched in both orders: of height 3 at most, the leaves below
\* the second and later root moves as in the fixed pattern, or quiet
PermFens ==
  { fen \in Fens :
      /\ fen.h <= 3
      /\ \A p \in DOMAIN fen.lab :
           (Len(p) = fen.h /\ Len(p) >= 2 /\ p[1] # 1) => fen.lab[p] \in { 1, Fixed(p) } }

PermInit ==
  \E fen \in PermFens, depth \in 1..MaxDepth :
    \E s \in Swaps(fen) :
      /\ Describes(fen, depth)
      /\ worker = 1
      /\ created = 1
      /\ terminated = {}
      /\ onmessage = 2
      /\ onerror = 2
      /\ promises = << Pending(fen, depth, 1),
                       Pending(Permuted(fen, s.q, s.i, s.j), depth, 1) >>
      /\ inbox = << [fen |-> fen, depth |-> depth, rid |-> 1],
                    [fen |-> Permuted(fen, s.q, s.i, s.j), depth |-> depth, rid |-> 2] >>
      /\ outbox = <<>>
      /\ wpc = "idle"
      /\ job = NoJob
      /\ game = NoGame
      /\ stack = <<>>
      /\ trace = <<>>
      /\ runs = <<>>
      /\ call = NoCall
      /\ store = InitialState
      /\ draggingFrom = NoSquare

PermSpec == PermInit /\ [][SearchNext]_vars

\* the values minimax returned for node p in a search
ReturnedAt(tr, p) ==
  { tr[k].n : k \in { k \in DOMAIN tr : tr[k].op = "return" /\ tr[k].hist = p } }

\* the exchanges that turn the position of the first search into that of the
\* second
Relating ==
  { s \in Swaps(runs[1].fen) : runs[2].fen = Permuted(runs[1].fen, s.q, s.i, s.j) }

\* the nodes of depth n of the first search whose score is the same in the
\* second search, at the node the exchange takes them to
SameScores(levels) ==
  \A s \in Relating :
    \A p \in UNION { PathsOfLen(n) : n \in levels } :
      \A v1 \in ReturnedAt(runs[1].trace, p),
         v2 \in ReturnedAt(runs[2].trace, SwapAt(p, s.q, s.i, s.j)) : v1 = v2

\* C11 as stated: when the rules engine returns the moves of a node in
\* another order, every node searched in both orders gets the same score
\* from minimax, and the best score at the root is the same.
OrderingInvariance ==
  Len(runs) = 2 =>
    /\ runs[1].bestEval = runs[2].bestEval
    /\ SameScores(1..MaxDepth)

\* C11, amended: when the rules engine returns the moves of a node in
\* another order, the best score at the root is the same, every root move
\* gets the same score from minimax (it is searched with the full window),
\* and the move returned is one whose score is the best score.
RootOrderingInvariance ==
  Len(runs) = 2 =>
    /\ runs[1].bestEval = runs[2].bestEval
    /\ SameScores({ 1 })
    /\ \A k \in 1..2 :
         /\ \A i \in DOMAIN RootMoves(runs[k].fen) :
              Cardinality(ReturnedAt(runs[k].trace, << i >>)) = 1
         /\ runs[k].result # Null =>
              ReturnedAt(runs[k].trace, << runs[k].result.id >>) = { runs[k].bestEval }

\* two root moves of equal score changed places, and the search returned
\* the other one; and a node below the root got another score
RootOrderingWitness ==
  /\ Len(runs) = 2
  /\ runs[1].result # Null /\ runs[2].result # Null
  /\ runs[1].result.san # runs[2].result.san
  /\ runs[1].bestEval = runs[2].bestEval

(***************************************************************************)
(* evaluate and orderMoves called on their own.  call.args are the         *)
(* arguments of the calls to make, call.rets the values returned so far,   *)
(* call.post what each argument holds after its call.                      *)
(***************************************************************************)
Colors == { "w", "b" }
Types == DOMAIN PIECE_VALUES

\* every piece on every square
Placed == { Pc(c, t, row, col) : c \in Colors, t \in Types, row \in 0..7, col \in 0..7 }

\* the boards evaluated: one piece alone, one piece and a king on its home
\* square, the catalogued positions
EvalBoards ==
  { BoardOf({ x }) : x \in Placed }
    \cup { BoardOf({ x, k }) : x \in Placed, k \in { Pc("w", "k", 7, 4), Pc("b", "k", 0, 4) } }
    \cup { Catalog[i].board : i \in DOMAIN Catalog }
    \cup { BoardOf(StartPieces) }

\* the colour-reversed, vertically reflected board: the piece of row r,
\* column c is on row 7 - r, column c, in the other colour
Mirror(board) ==
  [row \in 0..7 |-> [col \in 0..7 |->
     LET piece == board[7 - row][col]
     IN  IF piece = NoPiece THEN NoPiece
         ELSE [type |-> piece.type, color |-> IF piece.color = "w" THEN "b" ELSE "w"]]]

\* the Move of catalogue entry i, as game.moves reports it
CatalogMove(i) ==
  [id |-> i, san |-> Catalog[i].san, captured |-> Catalog[i].captured,
   promotion |-> Catalog[i].promotion]

RECURSIVE SeqsUpTo(_, _)
SeqsUpTo(S, n) ==
  IF n = 0 THEN { <<>> }
  ELSE LET shorter == SeqsUpTo(S, n - 1)
       IN  shorter \cup { Append(q, x) : q \in { q \in shorter : Len(q) = n - 1 }, x \in S }

\* the move lists ordered: up to Branch + 1 catalogued moves in any order
MoveLists == SeqsUpTo({ CatalogMove(i) : i \in BlackEntries }, Branch + 1)

\* `moves.sort(...)` sorts the array it is called on and returns that same
\* array: what the argument of orderMoves holds after the call
InputAfterOrderMoves(moves) == orderMoves(moves)

PureInit ==
  /\ worker = 0
  /\ created = 0
  /\ terminated = {}
  /\ onmessage = 0
  /\ onerror = 0
  /\ promises = <<>>
  /\ inbox = <<>>
  /\ outbox = <<>>
  /\ wpc = "idle"
  /\ job = NoJob
  /\ game = NoGame
  /\ stack = <<>>
  /\ trace = <<>>
  /\ runs = <<>>
  /\ store = InitialState
  /\ draggingFrom = NoSquare
  /\ \/ \E board \in EvalBoards :
          call = [fn |-> "evaluate", args |-> << board, Mirror(board) >>,
                  rets |-> <<>>, post |-> <<>>]
     \/ \E moves \in MoveLists :
          call = [fn |-> "orderMoves", args |-> << moves >>,
                  rets |-> <<>>, post |-> <<>>]

\* the next call of evaluate
EvaluateCall ==
  /\ call.fn = "evaluate"
  /\ Len(call.rets) < Len(call.args)
  /\ LET board == call.args[Len(call.rets) + 1] IN
       call' = [call EXCEPT !.rets = Append(@, evaluate(board)),
                            !.post = Append(@, board)]
  /\ UNCHANGED << mainVars, workerVars, histVars, storeVars >>

\* the next call of orderMoves
OrderMovesCall ==
  /\ call.fn = "orderMoves"
  /\ Len(call.rets) < Len(call.args)
  /\ LET moves == call.args[Len(call.rets) + 1] IN
       call' = [call EXCEPT !.rets = Append(@, orderMoves(moves)),
                            !.post = Append(@, InputAfterOrderMoves(moves))]
  /\ UNCHANGED << mainVars, workerVars, histVars, storeVars >>

PureNext == EvaluateCall \/ OrderMovesCall

PureSpec == PureInit /\ [][PureNext]_vars

\* C12: evaluation symmetry.  The colour-reversed, vertically reflected
\* board gets the negated score: evaluate(mirror(P)) = -evaluate(P).
EvaluationSymmetry ==
  (call.fn = "evaluate" /\ Len(call.rets) = 2) =>
    call.rets[2] = 0 - call.rets[1]

\* a board with pieces of both colours, off the mirror axis, was evaluated
\* with its mirror image and the score is not zero
EvaluationSymmetryWitness ==
  /\ call.fn = "evaluate" /\ Len(call.rets) = 2
  /\ call.args[1] = BoardOf(StartPieces)
  /\ call.args[2] # call.args[1]
  /\ call.rets[1] # 0
  /\ call.rets[2] = 0 - call.rets[1]

\* C14: orderMoves is a pure function.  After orderMoves(moves) has
\* returned, `moves` holds the same elements in the same order as before.
OrderMovesIsPure ==
  (call.fn = "orderMoves" /\ Len(call.rets) = 1) =>
    call.post[1] = call.args[1]

\* the priority of a move: ten times the value of the captured piece, the
\* value of the piece promoted to, 50 when the move gives check
Priority(m) ==
    (IF m.captured # None THEN 10 * PIECE_VALUES[m.captured] ELSE 0)
  + (IF m.promotion # None THEN PIECE_VALUES[m.promotion] ELSE 0)
  + (IF CheckOf[m.id] THEN 50 ELSE 0)

Rearrangements(n) ==
  { f \in [1..n -> 1..n] : \A i, j \in 1..n : f[i] = f[j] => i = j }

\* out is inp rearranged by a permutation that keeps the input order of the
\* moves of equal priority, and is in non-increasing priority
StablySorted(inp, out) ==
  /\ Len(out) = Len(inp)
  /\ \A i, j \in DOMAIN out : i < j => Priority(out[i]) >= Priority(out[j])
  /\ \E f \in Rearrangements(Len(inp)) :
       /\ \A k \in DOMAIN out : out[k] = inp[f[k]]
       /\ \A i, j \in DOMAIN out :
            (i < j /\ Priority(out[i]) = Priority(out[j])) => f[i] < f[j]

\* C17: orderMoves returns its input rearranged in non-increasing priority
\* (captures, promotions, moves that give check), the moves of equal priority
\* in their input order.
OrderedByPriority ==
  (call.fn = "orderMoves" /\ Len(call.rets) = 1) =>
    StablySorted(call.args[1], call.rets[1])

(***************************************************************************)
(* More properties of the search.                                          *)
(***************************************************************************)
\* the last n events of the trace
LastEvents(n) == SubSeq(trace, Len(trace) - n + 1, Len(trace))

\* C13: terminal condition.  A call of minimax with depth 0, or in a
\* position that is over, is the innermost call for as long as it lasts (no
\* recursion below it), has made no call but game.isGameOver (unless depth
\* is 0) and evaluate, has no move list, and is at its return statement with
\* exactly the score evaluate gives for that position.
TerminalCondition ==
  wpc = "running" =>
    \A k \in 2..Len(stack) :
      LET f == stack[k]
          g == [fen |-> job.fen, hist |-> f.entry]
      IN  (f.depth = 0 \/ isGameOver(g)) =>
            /\ k = Len(stack)
            /\ f.pc = "return"
            /\ f.moves = <<>>
            /\ f.val = EvalOf[job.fen.lab[f.entry]]
            /\ game.hist = f.entry
            /\ IF f.depth = 0
                 THEN LastEvents(2) = << Event("minimax", f.entry, 0),
                                         Event("evaluate", f.entry, 0) >>
                 ELSE LastEvents(3) = << Event("minimax", f.entry, f.depth),
                                         Event("isGameOver", f.entry, 0),
                                         Event("evaluate", f.entry, 0) >>

\* minimax was called with depth left in a position that is over although
\* it has legal moves (a draw), after a call with depth 0 in the same search
TerminalWitness ==
  /\ wpc = "running" /\ Len(stack) >= 2
  /\ Top.depth > 0 /\ StatusOf(game) = "draw" /\ Top.pc = "return"
  /\ GameMoves(game) # <<>>
  /\ \E k \in DOMAIN trace : trace[k].op = "minimax" /\ trace[k].n = 0

\* the score minimax returned for root move m in trace tr
RootScore(tr, m) == CHOOSE v \in ReturnedAt(tr, << m.id >>) : TRUE

\* C15: root selection and tie-break.  findBestMove returns a move whose
\* minimax score is the lowest of all root moves, and of the moves with that
\* score the one that comes first in the order orderMoves gives.
RootSelection ==
  \A x \in DOMAIN runs :
    LET r       == runs[x]
        ordered == orderMoves(RootMoves(r.fen))
        lowest  == SetMin({ RootScore(r.trace, ordered[k]) : k \in DOMAIN ordered })
        first   == SetMin({ k \in DOMAIN ordered : RootScore(r.trace, ordered[k]) = lowest })
    IN  (r.fen.valid /\ ordered # <<>>) =>
          /\ \A k \in DOMAIN ordered : ReturnedAt(r.trace, << ordered[k].id >>) # {}
          /\ r.bestEval = lowest
          /\ r.result = ordered[first]

\* two root moves share the lowest score; orderMoves had put the one the
\* rules engine lists second in front, and it was returned
RootSelectionWitness ==
  \E x \in DOMAIN runs :
    LET r       == runs[x]
        ordered == orderMoves(RootMoves(r.fen))
    IN  /\ r.fen.valid /\ Len(ordered) = 2 /\ r.depth >= 2
        /\ ordered[1].id = 2
        /\ RootScore(r.trace, ordered[1]) = RootScore(r.trace, ordered[2])
        /\ r.result = ordered[1]

\* C16: cutoff.  A minimax call goes on to its next move only while alpha <
\* beta: once beta <= alpha holds after a child was scored it is at its
\* return statement with its running best, and the moves it had left were
\* never applied.  A call that returns has either cut off or scored all its
\* moves.  The root loop keeps the window (-Infinity, +Infinity), hands it
\* to every root move (searched as a maximizing node), and returns only
\* after all root moves.
CutoffDiscipline ==
  wpc = "running" =>
    /\ \A k \in 2..Len(stack) :
         LET f == stack[k] IN
           f.moves # <<>> =>
             /\ f.best = f.val
             /\ (k < Len(stack) \/ f.pc = "loop") =>
                  (f.alpha < f.beta /\ f.i <= Len(f.moves))
             /\ f.pc = "return" =>
                  /\ f.i > 1
                  /\ f.beta <= f.alpha \/ f.i = Len(f.moves) + 1
                  /\ \A j \in f.i..Len(f.moves) :
                       Event("move", f.entry, f.moves[j].id) \notin { trace[e] : e \in DOMAIN trace }
    /\ LET root == stack[1] IN
         /\ root.alpha = 0 - Infinity /\ root.beta = Infinity
         /\ root.pc = "return" => root.i = Len(root.moves) + 1
         /\ (Len(stack) >= 2 /\ stack[2].i = 1) =>
              /\ stack[2].alpha = 0 - Infinity
              /\ stack[2].beta = Infinity
              /\ stack[2].isMaximizing

\* a call two moves below the root is at its return statement by a cutoff,
\* with a move left that was not applied
CutoffWitness ==
  /\ wpc = "running" /\ Len(stack) >= 3
  /\ Top.pc = "return" /\ Top.moves # <<>>
  /\ Top.beta <= Top.alpha
  /\ Top.i <= Len(Top.moves)
  /\ Top.val = Top.best

\* C18: handler replacement.  The handlers of the Worker are those of the
\* latest call of findBestMoveAsync: a call leaves the earlier promises as
\* they are, and every message or error event dispatched calls resolve or
\* reject of the latest promise and of no other, whichever request it
\* answers.
HandlerReplacementStep ==
  /\ worker' # 0 => (onmessage' = Len(promises') /\ onerror' = Len(promises'))
  /\ \A p \in DOMAIN promises : promises'[p] # promises[p] => p = Len(promises')
  /\ (outbox # <<>> /\ outbox' = Tail(outbox) /\ worker' = worker) =>
       LET last == Len(promises) IN
         /\ Len(promises') = last
         /\ promises'[last].settles = promises[last].settles + 1
         /\ promises[last].state = "pending" => promises'[last].by = Head(outbox).rid

HandlerReplacement == [][HandlerReplacementStep]_vars

\* two calls were made before the first answer: both answers went to the
\* second promise, which was settled by the answer to the first request;
\* the first promise is still pending
HandlerReplacementWitness ==
  /\ Len(promises) = 2 /\ Quiescent /\ worker # 0
  /\ promises[1].state = "pending" /\ promises[1].settles = 0
  /\ promises[2].state # "pending" /\ promises[2].by = 1
  /\ promises[2].settles = 2

(***************************************************************************)
(* The game store, useGameStore.ts, with the dispatcher and the Worker.    *)
(***************************************************************************)
\* the catalogued move with the SAN of m
EntryOf(m) == CHOOSE k \in DOMAIN Catalog : Catalog[k].san = m.san

\* the condition on the AI's reply without the test of the side to move
AsksAIAnyTurn(newStatus, gameMode, turn) == newStatus = "playing" /\ gameMode = "ai"

\* if (newStatus === 'playing' && state.gameMode === 'ai' && game.turn() === 'b')
AsksAI(newStatus, gameMode, turn) ==
  newStatus = "playing" /\ gameMode = "ai" /\ turn = "b"

\* the condition on the AI's reply in state s, once game.move has left the
\* game g
AsksAfter(s, g) == AsksAI(getGameStatus(g), s.gameMode, GameTurn(g))

\* makeMove(from, to, promotion) called in state s: does it go on to call
\* findBestMoveAsync
MakeMoveAsks(s, from, to, promotion) ==
  /\ MovesFromTo(s.game, from, to, promotion) # {}
  /\ AsksAfter(s, GameMoveFromTo(s.game, from, to, promotion))

\* the state the two calls of set in makeMove leave, once game.move has left
\* the game g: asks tells whether the AI is asked for its reply
MoveState(s, g, from, to, asks) ==
  [s EXCEPT !.game = g,
            !.fen = GameFen(g),
            !.history = GameHistory(g),
            !.status = getGameStatus(g),
            !.turn = GameTurn(g),
            !.selectedSquare = NoSquare,
            !.legalMoves = <<>>,
            !.lastMove = [from |-> from, to |-> to],
            !.kingInCheck = IF GameInCheck(g)
                              THEN findKingSquare(g, GameTurn(g))
                              ELSE NoSquare,
            !.pendingPromotion = NoFromTo,
            !.aiThinking = IF asks THEN TRUE ELSE @]

\* makeMove(from, to, promotion) called in state s: the state it leaves.
\* A move that is not legal changes nothing.
MakeMoveState(s, from, to, promotion) ==
  IF MovesFromTo(s.game, from, to, promotion) = {} THEN s
  ELSE MoveState(s, GameMoveFromTo(s.game, from, to, promotion), from, to,
                 MakeMoveAsks(s, from, to, promotion))

\* makeMove(from, to, promotion), called by the board
makeMove(from, to, promotion) ==
  /\ store' = MakeMoveState(store, from, to, promotion)
  /\ IF MakeMoveAsks(store, from, to, promotion)
       THEN findBestMoveAsync(store'.fen, store.aiDepth)
       ELSE UNCHANGED << mainVars, workerVars, histVars, pureVars >>

\* worker.onmessage for a promise of makeMove: resolve(e.data), and when that
\* settles the promise, the callback makeMove passed to then: it plays the
\* AI's move if the game is still on in AI mode, and clears aiThinking
WorkerMessageThen ==
  /\ outbox # <<>>
  /\ Head(outbox).type = "message"
  /\ LET e       == Head(outbox)
         aiMove  == e.data
         settled == Settle(promises, onmessage, "fulfilled", e)
         runs_   == promises[onmessage].state = "pending"
         plays   == runs_ /\ aiMove # Null
                          /\ store.status = "playing" /\ store.gameMode = "ai"
         from    == FromOf[EntryOf(aiMove)]
         to      == ToOf[EntryOf(aiMove)]
         s1      == IF plays THEN MakeMoveState(store, from, to, aiMove.promotion)
                             ELSE store
     IN  /\ store' = IF runs_ THEN [s1 EXCEPT !.aiThinking = FALSE] ELSE store
         /\ IF plays /\ MakeMoveAsks(store, from, to, aiMove.promotion)
              THEN /\ findBestMoveAsyncIn(settled, s1.fen, store.aiDepth)
                   /\ outbox' = Tail(outbox)
              ELSE /\ promises' = settled
                   /\ outbox' = Tail(outbox)
                   /\ UNCHANGED << worker, created, terminated, onmessage, onerror,
                                   inbox, wpc, job, game, stack, histVars, pureVars >>

\* undoMove()
undoMove ==
  LET g    == IF store.gameMode = "ai"
                THEN GameUndo(GameUndo(store.game))
                ELSE GameUndo(store.game)
      hist == GameHistory(g)
      lastHistMove == hist[Len(hist)]
  IN  /\ store' = [store EXCEPT
                     !.game = g,
                     !.fen = GameFen(g),
                     !.history = hist,
                     !.status = getGameStatus(g),
                     !.turn = GameTurn(g),
                     !.selectedSquare = NoSquare,
                     !.legalMoves = <<>>,
                     !.lastMove = IF Len(hist) > 0
                                    THEN [from |-> FromOf[EntryOf(lastHistMove)],
                                          to |-> ToOf[EntryOf(lastHistMove)]]
                                    ELSE NoFromTo,
                     !.kingInCheck = IF GameInCheck(g)
                                       THEN findKingSquare(g, GameTurn(g))
                                       ELSE NoSquare,
                     !.aiThinking = FALSE]
      /\ UNCHANGED << mainVars, workerVars, histVars, pureVars >>

\* resetGame()
resetGame ==
  /\ store' = [store EXCEPT
                 !.game = GameNew(InitialFen),
                 !.fen = GameFen(GameNew(InitialFen)),
                 !.history = <<>>,
                 !.status = "playing",
                 !.turn = "w",
                 !.selectedSquare = NoSquare,
                 !.legalMoves = <<>>,
                 !.lastMove = NoFromTo,
                 !.kingInCheck = NoSquare,
                 !.pendingPromotion = NoFromTo,
                 !.aiThinking = FALSE]
  /\ UNCHANGED << mainVars, workerVars, histVars, pureVars >>

\* startGame(mode)
startGame(mode) ==
  /\ store' = [store EXCEPT
                 !.game = GameNew(InitialFen),
                 !.fen = GameFen(GameNew(InitialFen)),
                 !.history = <<>>,
                 !.status = "playing",
                 !.turn = "w",
                 !.gameMode = mode,
                 !.aiEnabled = (mode = "ai"),
                 !.selectedSquare = NoSquare,
                 !.legalMoves = <<>>,
                 !.lastMove = NoFromTo,
                 !.kingInCheck = NoSquare,
                 !.pendingPromotion = NoFromTo,
                 !.aiThinking = FALSE]
  /\ UNCHANGED << mainVars, workerVars, histVars, pureVars >>

\* setAiDepth(depth)
setAiDepth(depth) ==
  /\ store' = [store EXCEPT !.aiDepth = depth]
  /\ UNCHANGED << mainVars, workerVars, histVars, pureVars >>

\* the moves the board asks for: the squares of every catalogued move,
\* legal in the position or not
BoardMoves == { << FromOf[k], ToOf[k] >> : k \in DOMAIN Catalog }

GameModes == { "ai", "pvp" }

\* the depths the settings are changed to: the default and a shallow one
AiDepths == { 1, 3 }

StoreInit == Init

\* the Worker has nothing to do
WorkerIdle == inbox = <<>> /\ wpc = "idle"

\* The tasks of the main thread: the calls of the store by the board, and
\* the message event of the Worker.  The Worker shares no state with the
\* main thread, which learns of an answer only when the message event is
\* dispatched; its steps are therefore taken before the next task of the
\* main thread, and the main thread's tasks come in every order with respect
\* to the requests and the events of the answers.
CallStartGame ==
  /\ WorkerIdle
  /\ \E mode \in GameModes : startGame(mode)
  /\ UNCHANGED draggingFrom

CallResetGame == WorkerIdle /\ resetGame /\ UNCHANGED draggingFrom

CallMakeMove ==
  /\ WorkerIdle
  /\ \E ft \in BoardMoves : makeMove(ft[1], ft[2], None)
  /\ Len(promises') <= MaxAsks
  /\ UNCHANGED draggingFrom

CallUndoMove == WorkerIdle /\ undoMove /\ UNCHANGED draggingFrom

CallSetAiDepth ==
  /\ WorkerIdle
  /\ \E depth \in AiDepths : setAiDepth(depth)
  /\ UNCHANGED draggingFrom

MessageTask == WorkerIdle /\ WorkerMessageThen /\ UNCHANGED draggingFrom

\* the store never calls terminateAI, and every FEN it submits parses, so
\* that the Worker reports no error
StoreNext ==
  \/ CallStartGame
  \/ CallResetGame
  \/ CallMakeMove
  \/ CallUndoMove
  \/ CallSetAiDepth
  \/ MessageTask
  \/ WorkerOnMessage
  \/ Descend
  \/ Return
  \/ Finish

StoreSpec == StoreInit /\ [][StoreNext]_vars


(***************************************************************************)
(* Properties of the store.                                                *)
(***************************************************************************)
\* a step in which findBestMoveAsync is called is a step of makeMove that
\* applied a move, after which the game is on, in AI mode, with Black to
\* move; the request carries the FEN of the game and the store's aiDepth
AIRequestStep ==
  Len(promises') > Len(promises) =>
    LET request == promises'[Len(promises')]
        g       == store'.game
    IN  /\ Len(promises') = Len(promises) + 1
        /\ \E ft \in BoardMoves, promotion \in { None, "q" } :
             /\ MovesFromTo(store.game, ft[1], ft[2], promotion) # {}
             /\ g = GameMoveFromTo(store.game, ft[1], ft[2], promotion)
        /\ Len(store'.history) = Len(store.history) + 1
        /\ getGameStatus(g) = "playing"
        /\ store'.status = "playing"
        /\ store.gameMode = "ai"
        /\ store'.gameMode = "ai"
        /\ GameTurn(g) = "b"
        /\ store'.turn = "b"
        /\ request.fen = GameFen(g)
        /\ request.fen = store'.fen
        /\ request.depth = store.aiDepth
        /\ request.depth = store'.aiDepth
        /\ request.state = "pending"
        /\ inbox' = Append(inbox, [fen |-> request.fen, depth |-> request.depth,
                                   rid |-> Len(promises')])

\* C19: the search is only ever submitted for Black.  findBestMoveAsync is
\* called only from makeMove, right after a move was applied, and only when
\* the new status is 'playing', gameMode is 'ai' and Black is to move; the
\* FEN submitted is the game's FEN at that moment, the depth the store's
\* aiDepth.
SubmittedForBlackOnly == [][AIRequestStep]_vars

\* two requests were made, for different positions and with different
\* depths, and the second is being waited for
SubmittedForBlackWitness ==
  /\ Len(promises) = 2
  /\ promises[1].fen # promises[2].fen
  /\ promises[1].depth # promises[2].depth
  /\ promises[2].state = "pending"
  /\ store.aiThinking
  /\ store.fen = promises[2].fen

\* what undoMove leaves when it took back n plies: the store refreshed from
\* the game, aiThinking false
UndoTookBack(n) ==
  /\ Len(store'.game.hist) = Len(store.game.hist) - n
  /\ Len(store'.history) = Len(store.history) - n
  /\ store'.history = GameHistory(store'.game)
  /\ store'.fen = GameFen(store'.game)
  /\ store'.status = getGameStatus(store'.game)
  /\ store'.turn = GameTurn(store'.game)
  /\ ~store'.aiThinking

UndoStep ==
  undoMove =>
    IF store.gameMode = "ai"
      THEN UndoTookBack(2) /\ store'.turn = "w"
      ELSE UndoTookBack(1)

\* C20: in AI mode undoMove takes back two moves, the human player's last
\* move and the AI's last move: the history becomes two plies shorter and
\* White is again to move, with fen, history, status and turn refreshed from
\* the game and aiThinking false; in pvp mode exactly one move is taken back.
UndoTakesBackTwo == [][UndoStep]_vars

\* C21: a promise returned by findBestMoveAsync(fen, depth) is only ever
\* resolved with the value the Worker computed for that same request: the
\* event that resolved it answers its own request and carries the result of
\* the search of its fen and depth; no caller gets another caller's result.
OwnResultOnly ==
  \A p \in DOMAIN promises :
    promises[p].state = "fulfilled" =>
      /\ promises[p].by = p
      /\ \E k \in DOMAIN runs :
           /\ runs[k].rid = p
           /\ runs[k].fen = promises[p].fen
           /\ runs[k].depth = promises[p].depth
           /\ runs[k].result = promises[p].value

\* the completion callback of promise onmessage is run by this step and
\* calls makeMove with the AI's move
CallbackPlays ==
  /\ MessageTask
  /\ promises[onmessage].state = "pending"
  /\ Head(outbox).data # Null
  /\ store.status = "playing"
  /\ store.gameMode = "ai"

\* when the callback calls makeMove, the game is in the position submitted
\* with the request of its promise, which is the request the move answers
AIMoveStep ==
  CallbackPlays =>
    /\ store.fen = promises[onmessage].fen
    /\ GameFen(store.game) = promises[onmessage].fen
    /\ Head(outbox).rid = onmessage

\* C22: an AI move is applied to the store's game only in the position it
\* was computed for: whenever the completion callback of findBestMoveAsync
\* calls makeMove with the AI's move, the game's FEN is the FEN submitted with
\* that request, whatever undoMove, resetGame, startGame and makeMove calls
\* came in between.
AIMoveInItsPosition == [][AIMoveStep]_vars

\* the same for the moves that are legal where they arrive: the callback
\* never changes a position other than the one the move was computed for
AIMoveAppliedStep ==
  (CallbackPlays /\ store'.game # store.game) =>
    /\ store.fen = promises[onmessage].fen
    /\ store.fen = promises[Head(outbox).rid].fen

AIMoveAppliedInItsPosition == [][AIMoveAppliedStep]_vars

(***************************************************************************)
(* The store with a Worker that answers every request, with a result or    *)
(* with an error.                                                          *)
(***************************************************************************)
\* the Worker fails on the request at the head of its queue (an uncaught
\* exception of its handler) and reports an error event instead of a result
WorkerFails ==
  /\ wpc = "idle"
  /\ inbox # <<>>
  /\ LET m == Head(inbox) IN
       /\ inbox' = Tail(inbox)
       /\ outbox' = Append(outbox,
            [type |-> "error", data |-> Null, rid |-> m.rid, wid |-> worker])
       /\ runs' = Append(runs, [fen |-> m.fen, depth |-> m.depth, rid |-> m.rid,
                                trace |-> <<>>, type |-> "error", result |-> Null,
                                bestEval |-> 0])
  /\ UNCHANGED << mainVars, wpc, job, game, stack, trace, pureVars, storeVars >>

\* worker.onerror for a promise of makeMove: reject(err); then was given no
\* rejection handler, so that no callback of the store runs
ErrorTask == WorkerIdle /\ WorkerErrorEvent

AnsweredNext == StoreNext \/ WorkerFails \/ ErrorTask

\* the Worker takes up every request and finishes it, and the main thread
\* dispatches every event; the board is free to call the store or not
AnsweredSpec ==
  /\ StoreInit
  /\ [][AnsweredNext]_vars
  /\ WF_vars(WorkerOnMessage \/ WorkerFails)
  /\ WF_vars(Descend)
  /\ WF_vars(Return)
  /\ WF_vars(Finish)
  /\ WF_vars(MessageTask)
  /\ WF_vars(ErrorTask)

\* C23: aiThinking never stays true forever.  Whenever makeMove has set
\* aiThinking, the store reaches a state with aiThinking false, given that
\* the Worker answers every request with a result or with an error.
AIThinkingEnds == store.aiThinking ~> ~store.aiThinking

\* the store with a Worker that answers every request with a result: the
\* Worker takes up every request and finishes it, and the main thread
\* dispatches every message event
FairStoreSpec ==
  /\ StoreInit
  /\ [][StoreNext]_vars
  /\ WF_vars(WorkerOnMessage)
  /\ WF_vars(Descend)
  /\ WF_vars(Return)
  /\ WF_vars(Finish)
  /\ WF_vars(MessageTask)

\* the game is on in AI mode and it is for the AI to move
BlackToMoveInAI ==
  /\ store.gameMode = "ai"
  /\ store.status = "playing"
  /\ GameTurn(store.game) = "b"

\* a request is queued or being searched, or an answer waits to be dispatched
SearchOutstanding == inbox # <<>> \/ wpc = "running" \/ outbox # <<>>

\* C24: in AI mode the game never gets stuck on Black's turn.  From every
\* state with gameMode 'ai', status 'playing' and Black to move, a Black move
\* is eventually applied or the game is reset or undone to a White-to-move
\* position, given that the Worker answers every request.
NeverStuckOnBlack == BlackToMoveInAI ~> ~BlackToMoveInAI

\* the particular case: no sequence of makeMove, undoMove, resetGame and
\* startGame leads to such a state with no search outstanding
BlackTurnHasSearch == BlackToMoveInAI => SearchOutstanding


(***************************************************************************)
(* The board, ChessBoard, and the store's functions it calls.  A piece     *)
(* calls onDragStart when the pointer goes down on it and onDragEnd when   *)
(* the pointer goes up; a square calls onClick.                            *)
(***************************************************************************)
\* seq.includes(x)
Includes(seq, x) == \E j \in DOMAIN seq : seq[j] = x

\* getLegalMovesFrom(square) for the game g: the squares the legal moves
\* from `square` go to, in the order of game.moves
getLegalMovesFrom(g, square) ==
  LET n     == Len(GameMoves(g))
      to(i) == ToOf[g.fen.lab[Append(g.hist, i)]]
      is(i) == FromOf[g.fen.lab[Append(g.hist, i)]] = square
      \* the i-th of the moves from `square`
      nth[j \in 1..n] ==
        CHOOSE i \in 1..n : is(i) /\ Cardinality({ h \in 1..i : is(h) }) = j
  IN  [j \in 1..Cardinality({ i \in 1..n : is(i) }) |-> to(nth[j])]

\* piece && piece.color === game.turn() for piece = game.get(square): the
\* pieces of the positions are those that have a legal move
HoldsPieceToMove(g, square) == getLegalMovesFrom(g, square) # <<>>

\* the test of a promotion, for a legal move from `from` to `to`: the piece
\* is a pawn and the move ends on the last rank
IsPromotionMove(g, from, to) ==
  \E i \in 1..Len(GameMoves(g)) :
    LET k == g.fen.lab[Append(g.hist, i)]
    IN  FromOf[k] = from /\ ToOf[k] = to /\ Catalog[k].promotion # None

\* selectSquare(square)
selectSquare(square) ==
  LET g   == store.game
      sel == store.selectedSquare
  IN  IF store.status # "playing" \/ store.aiThinking
        THEN UNCHANGED << store, mainVars, workerVars, histVars, pureVars >>
      ELSE IF store.gameMode = "ai" /\ GameTurn(g) = "b"
        THEN UNCHANGED << store, mainVars, workerVars, histVars, pureVars >>
      ELSE IF sel # NoSquare /\ Includes(getLegalMovesFrom(g, sel), square)
        THEN IF IsPromotionMove(g, sel, square)
               THEN /\ store' = [store EXCEPT !.pendingPromotion =
                                                [from |-> sel, to |-> square]]
                    /\ UNCHANGED << mainVars, workerVars, histVars, pureVars >>
               ELSE makeMove(sel, square, None)
      ELSE /\ store' = IF HoldsPieceToMove(g, square)
                         THEN [store EXCEPT !.selectedSquare = square,
                                            !.legalMoves = getLegalMovesFrom(g, square)]
                         ELSE [store EXCEPT !.selectedSquare = NoSquare,
                                            !.legalMoves = <<>>]
           /\ UNCHANGED << mainVars, workerVars, histVars, pureVars >>

\* handlePromotion(piece)
handlePromotion(piece) ==
  LET promo == store.pendingPromotion
  IN  IF promo = NoFromTo
        THEN UNCHANGED << store, mainVars, workerVars, histVars, pureVars >>
        ELSE makeMove(promo.from, promo.to, piece)

\* cancelPromotion()
cancelPromotion ==
  /\ store' = [store EXCEPT !.pendingPromotion = NoFromTo,
                            !.selectedSquare = NoSquare,
                            !.legalMoves = <<>>]
  /\ UNCHANGED << mainVars, workerVars, histVars, pureVars >>

\* toggleAI()
toggleAI ==
  /\ store' = [store EXCEPT !.aiEnabled = ~@]
  /\ UNCHANGED << mainVars, workerVars, histVars, pureVars >>

\* handleSquareClick(square)
handleSquareClick(square) ==
  IF draggingFrom # NoSquare THEN UNCHANGED vars
  ELSE selectSquare(square) /\ UNCHANGED draggingFrom

\* handleDragStart(square) (dragLegalMoves, which only the drawing of the
\* board reads, is left out)
handleDragStart(square) ==
  IF /\ HoldsPieceToMove(store.game, square)
     /\ ~(store.aiEnabled /\ GameTurn(store.game) = "b")
    THEN draggingFrom' = square /\ selectSquare(square)
    ELSE UNCHANGED vars

\* handleDragEnd(targetSquare); targetSquare is NoSquare when the piece is
\* dropped outside the board
handleDragEnd(targetSquare) ==
  /\ draggingFrom' = NoSquare
  /\ IF /\ draggingFrom # NoSquare
        /\ targetSquare # NoSquare
        /\ Includes(getLegalMovesFrom(store.game, draggingFrom), targetSquare)
       THEN IF IsPromotionMove(store.game, draggingFrom, targetSquare)
              THEN /\ store' = [store EXCEPT
                                  !.pendingPromotion =
                                     [from |-> draggingFrom, to |-> targetSquare],
                                  !.selectedSquare = NoSquare,
                                  !.legalMoves = <<>>]
                   /\ UNCHANGED << mainVars, workerVars, histVars, pureVars >>
              ELSE makeMove(draggingFrom, targetSquare, None)
       ELSE UNCHANGED << store, mainVars, workerVars, histVars, pureVars >>

\* the squares the pointer acts on: the squares of every catalogued move
BoardSquares ==
  { FromOf[k] : k \in DOMAIN Catalog } \cup { ToOf[k] : k \in DOMAIN Catalog }

\* the pieces of the promotion dialog the player picks: the promotions of
\* the catalogue are promotions to a queen
PromotionPieces == { "q" }

\* The tasks of the main thread when the player acts on the board: the
\* pointer events of the squares and the pieces, and the buttons of the
\* promotion dialog and of the panel.
SquareClickTask ==
  /\ WorkerIdle
  /\ \E square \in BoardSquares : handleSquareClick(square)
  /\ Len(promises') <= MaxAsks

DragStartTask ==
  /\ WorkerIdle
  /\ \E square \in BoardSquares : handleDragStart(square)
  /\ Len(promises') <= MaxAsks

DragEndTask ==
  /\ WorkerIdle
  /\ \E targetSquare \in BoardSquares \cup { NoSquare } : handleDragEnd(targetSquare)
  /\ Len(promises') <= MaxAsks

PromotionTask ==
  /\ WorkerIdle
  /\ \E piece \in PromotionPieces : handlePromotion(piece)
  /\ Len(promises') <= MaxAsks
  /\ UNCHANGED draggingFrom

CancelPromotionTask == WorkerIdle /\ cancelPromotion /\ UNCHANGED draggingFrom

ToggleAITask == WorkerIdle /\ toggleAI /\ UNCHANGED draggingFrom

BoardNext ==
  \/ SquareClickTask
  \/ DragStartTask
  \/ DragEndTask
  \/ PromotionTask
  \/ CancelPromotionTask
  \/ ToggleAITask
  \/ CallStartGame
  \/ CallResetGame
  \/ CallUndoMove
  \/ CallSetAiDepth
  \/ MessageTask
  \/ WorkerOnMessage
  \/ Descend
  \/ Return
  \/ Finish

BoardSpec == StoreInit /\ [][BoardNext]_vars


(***************************************************************************)
(* The board after the game is over and while the AI thinks.               *)
(***************************************************************************)
\* the game is over, or the AI is thinking
InputBlocked == store.status # "playing" \/ store.aiThinking

\* the game position, the history and the status stay as they are
PositionKept ==
  /\ store'.game = store.game
  /\ store'.fen = store.fen
  /\ store'.history = store.history
  /\ store'.status = store.status

\* C25 (click): when the status is not 'playing' or aiThinking is true, a
\* click on a square, which calls selectSquare, leaves the whole store
\* unchanged
ClickChangesNothing ==
  [][(InputBlocked /\ SquareClickTask) => store' = store]_vars

\* C25: when the status is not 'playing' or aiThinking is true, no input of
\* the board (a click, the start and the end of a drag, the choice of a
\* promotion) changes the game position, the history or the status, and a
\* click leaves the whole store unchanged
BlockedInputKeepsPosition ==
  [][(InputBlocked /\ (SquareClickTask \/ DragStartTask \/ DragEndTask \/ PromotionTask))
       => (PositionKept /\ (SquareClickTask => store' = store))]_vars

====
